---- MODULE Spec2Model ----
(***************************************************************************)
(* navier_stokes_poiseuille.py: incremental pressure correction scheme     *)
(* (IPCS) for Poiseuille flow on the unit square.                          *)
(*                                                                         *)
(* The script is modelled statement by statement.  The Python floats T,    *)
(* dt and t are IEEE 754 doubles: binary numbers with a 53-bit significand *)
(* and round-to-nearest-even, computed bit by bit.  The coefficient        *)
(* k = Constant(dt) of the forms is that double.  The finite-element       *)
(* quantities (matrices, vectors, nodal values of the fields) are exact    *)
(* rationals of any size: the rounding inside assemble and inside the LU   *)
(* solve behind solve(A, x, b) is not represented.  The P1 finite-element  *)
(* assembly of the library is written out for the forms of lines 59-72 on  *)
(* UnitSquareMesh(nx, ny).                                                 *)
(***************************************************************************)
EXTENDS Integers, Sequences, FiniteSets, TLC

(***************************************************************************)
(* Bounds of the model.                                                    *)
(***************************************************************************)
\* largest num_steps explored (the script sets 500)
MaxSteps == 6
\* largest |T| explored (the script sets 10.0)
MaxT == 2

(***************************************************************************)
(* The numerical routines.  Each routine X of the list below is defined    *)
(* further down as X_body; X itself asks the one recursive operator        *)
(* Numeric for X_body, so that wherever a routine uses another one, the    *)
(* definitions of all of them are shared.                                  *)
(***************************************************************************)
RECURSIVE Numeric(_, _)

NatAdd(a, b) == Numeric("NatAdd", <<a, b>>)
NatSub(a, b) == Numeric("NatSub", <<a, b>>)
NatMul(a, b) == Numeric("NatMul", <<a, b>>)
NatShiftLeft(a, sh) == Numeric("NatShiftLeft", <<a, sh>>)
NatShiftRight(a, sh) == Numeric("NatShiftRight", <<a, sh>>)
NatDivMod(a, b) == Numeric("NatDivMod", <<a, b>>)
NatGCD(a, b) == Numeric("NatGCD", <<a, b>>)
RAdd(x, y) == Numeric("RAdd", <<x, y>>)
RMul(x, y) == Numeric("RMul", <<x, y>>)
DAdd(x, y) == Numeric("DAdd", <<x, y>>)
DMul(x, y) == Numeric("DMul", <<x, y>>)
RoundF(x) == Numeric("RoundF", <<x>>)
FloatOfInt(i) == Numeric("FloatOfInt", <<i>>)
FAdd(x, y) == Numeric("FAdd", <<x, y>>)
FDiv(x, y) == Numeric("FDiv", <<x, y>>)
RealOfFloat(x) == Numeric("RealOfFloat", <<x>>)
FMul(x, y) == Numeric("FMul", <<x, y>>)
WithinRounding(x, y, m, scale) == Numeric("WithinRounding", <<x, y, m, scale>>)
Rat(n, d) == Numeric("Rat", <<n, d>>)
MeshGeometry(m) == Numeric("MeshGeometry", <<m>>)
LUSolve(A, b) == Numeric("LUSolve", <<A, b>>)
AssembleA1(m, k) == Numeric("AssembleA1", <<m, k>>)
AssembleA2(m) == Numeric("AssembleA2", <<m>>)
AssembleA3(m) == Numeric("AssembleA3", <<m>>)
AssembleL1(m, k, u0v, p0v) == Numeric("AssembleL1", <<m, k, u0v, p0v>>)
AssembleL2(m, k, p0v, u1v) == Numeric("AssembleL2", <<m, k, p0v, u1v>>)
AssembleL3(m, k, u1v, p1v, p0v) == Numeric("AssembleL3", <<m, k, u1v, p1v, p0v>>)
MaxNodalError(m, u1v) == Numeric("MaxNodalError", <<m, u1v>>)

(***************************************************************************)
(* Machine integers.                                                       *)
(***************************************************************************)
RECURSIVE GCD(_, _)
GCD(a, b) == IF b = 0 THEN a ELSE GCD(b, a % b)

IAbs(a) == IF a < 0 THEN -a ELSE a

RECURSIVE Pow2(_)
Pow2(e) ==
    IF e = 0 THEN 1
    ELSE LET h == Pow2(e \div 2) IN IF e % 2 = 0 THEN h * h ELSE 2 * h * h

(***************************************************************************)
(* Natural numbers of any size: a sequence of limbs in 0..Base-1, least    *)
(* significant first, whose last limb is not 0; <<>> is 0.  Bits are       *)
(* numbered from 1, the lowest.  Numbers of at most two limbs are handled  *)
(* with machine integers.                                                  *)
(***************************************************************************)
LimbBits == 15
Base == 32768

\* the natural number of the machine integer i >= 0
NatOfInt(i) ==
    IF i = 0 THEN <<>>
    ELSE IF i < Base THEN <<i>>
    ELSE IF i < Base * Base THEN <<i % Base, i \div Base>>
    ELSE <<i % Base, (i \div Base) % Base, i \div (Base * Base)>>

Limb(a, i) == IF i <= Len(a) THEN a[i] ELSE 0

Short(a) == Len(a) <= 2

\* the machine integer of a, Short(a)
IntOfNat(a) == Limb(a, 1) + Base * Limb(a, 2)

\* a without its high-order zero limbs
NatStrip(a) ==
    LET nz == {i \in 1..Len(a) : a[i] # 0}
    IN  IF nz = {} THEN <<>>
        ELSE SubSeq(a, 1, CHOOSE i \in nz : \A j \in nz : j <= i)

RECURSIVE AddFrom(_, _, _, _)
AddFrom(a, b, i, carry) ==
    IF i > Len(a) /\ i > Len(b) THEN (IF carry = 1 THEN <<1>> ELSE <<>>)
    ELSE LET sum == Limb(a, i) + Limb(b, i) + carry
         IN  <<sum % Base>> \o AddFrom(a, b, i + 1, sum \div Base)

NatAdd_body(a, b) ==
    IF Short(a) /\ Short(b) THEN NatOfInt(IntOfNat(a) + IntOfNat(b))
    ELSE AddFrom(a, b, 1, 0)

RECURSIVE SubFrom(_, _, _, _)
SubFrom(a, b, i, borrow) ==
    IF i > Len(a) THEN <<>>
    ELSE LET d == Limb(a, i) - Limb(b, i) - borrow
         IN  <<(d + Base) % Base>> \o SubFrom(a, b, i + 1, IF d < 0 THEN 1 ELSE 0)

\* a - b for a >= b
NatSub_body(a, b) ==
    IF Short(a) THEN NatOfInt(IntOfNat(a) - IntOfNat(b))
    ELSE NatStrip(SubFrom(a, b, 1, 0))

NatLess(a, b) ==
    IF Len(a) # Len(b) THEN Len(a) < Len(b)
    ELSE \E i \in 1..Len(a) :
            a[i] < b[i] /\ \A j \in (i + 1)..Len(a) : a[j] = b[j]

\* a * c for 0 <= c < Base
RECURSIVE MulSmallFrom(_, _, _, _)
MulSmallFrom(a, c, i, carry) ==
    IF i > Len(a) THEN NatOfInt(carry)
    ELSE LET prod == a[i] * c + carry
         IN  <<prod % Base>> \o MulSmallFrom(a, c, i + 1, prod \div Base)

NatMulSmall(a, c) ==
    IF c = 0 THEN <<>> ELSE IF c = 1 THEN a ELSE MulSmallFrom(a, c, 1, 0)

\* a * Base^w
ShiftLimbs(a, w) ==
    IF a = <<>> \/ w = 0 THEN a ELSE SubSeq([i \in 1..w |-> 0], 1, w) \o a

RECURSIVE MulFrom(_, _, _)
MulFrom(a, b, i) ==
    IF i > Len(b) THEN <<>>
    ELSE NatAdd(NatMulSmall(a, b[i]), ShiftLimbs(MulFrom(a, b, i + 1), 1))

NatMul_body(a, b) ==
    IF a = <<>> \/ b = <<>> THEN <<>>
    ELSE IF Len(b) = 1 THEN NatMulSmall(a, b[1])
    ELSE IF Len(a) = 1 THEN NatMulSmall(b, a[1])
    ELSE MulFrom(a, b, 1)

\* a * 2^sh
NatShiftLeft_body(a, sh) ==
    ShiftLimbs(NatMulSmall(a, Pow2(sh % LimbBits)), sh \div LimbBits)

\* a div 2^sh
NatShiftRight_body(a, sh) ==
    LET w == sh \div LimbBits
        b == sh % LimbBits
    IN  IF sh = 0 THEN a
        ELSE IF Len(a) <= w THEN <<>>
        ELSE NatStrip(SubSeq([i \in 1..(Len(a) - w) |->
                         (Limb(a, i + w) \div Pow2(b))
                         + (Limb(a, i + w + 1) % Pow2(b)) * Pow2(LimbBits - b)],
                      1, Len(a) - w))

\* bit i of a
NatBit(a, i) ==
    (Limb(a, ((i - 1) \div LimbBits) + 1) \div Pow2((i - 1) % LimbBits)) % 2

\* the number of bits of a
NatBitLen(a) ==
    IF a = <<>> THEN 0
    ELSE LET top == a[Len(a)]
         IN  LimbBits * (Len(a) - 1)
             + CHOOSE w \in 1..LimbBits : Pow2(w - 1) <= top /\ top < Pow2(w)

\* the number of zero bits below the lowest 1 bit of a, a # 0
NatLowZeros(a) ==
    LET i == CHOOSE j \in 1..Len(a) : a[j] # 0 /\ \A l \in 1..(j - 1) : a[l] = 0
    IN  LimbBits * (i - 1)
        + CHOOSE z \in 0..(LimbBits - 1) :
             a[i] % Pow2(z) = 0 /\ a[i] % Pow2(z + 1) # 0

\* one step of the long division by b: the next bit of the dividend is brought
\* down onto the remainder, qr = <<quotient so far, remainder>>
DivStep(b, qr, bit) ==
    LET q2 == NatAdd(qr[1], qr[1])
        r2 == NatAdd(NatAdd(qr[2], qr[2]), IF bit = 1 THEN <<1>> ELSE <<>>)
    IN  IF NatLess(r2, b) THEN <<q2, r2>>
        ELSE <<NatAdd(q2, <<1>>), NatSub(r2, b)>>

\* the long division over the bits hi, hi - 1, ..., lo of a: the upper half
\* of the bits first, then the lower half from the result u of the upper
RECURSIVE DivBits(_, _, _, _, _)
DivBits(a, b, qr, hi, lo) ==
    IF hi = lo THEN DivStep(b, qr, NatBit(a, hi))
    ELSE LET mid == (hi + lo) \div 2
         IN  CHOOSE r \in {DivBits(a, b, u, mid, lo) :
                              u \in {DivBits(a, b, qr, hi, mid + 1)}} : TRUE

\* <<a div c, a mod c>> for 0 < c < Base, limb by limb from limb i upwards;
\* the quotient limbs are not stripped, the remainder is a machine integer
RECURSIVE DivSmallFrom(_, _, _)
DivSmallFrom(a, c, i) ==
    IF i > Len(a) THEN <<<<>>, 0>>
    ELSE LET up == CHOOSE u \in {DivSmallFrom(a, c, i + 1)} : TRUE
             cur == up[2] * Base + a[i]
         IN  <<<<cur \div c>> \o up[1], cur % c>>

\* <<a div b, a mod b>> for b # 0: the leading bits of a that make a number
\* below b are the first remainder, the other bits are brought down
NatDivMod_body(a, b) ==
    IF NatLess(a, b) THEN <<<<>>, a>>
    ELSE IF Short(a) THEN <<NatOfInt(IntOfNat(a) \div IntOfNat(b)),
                            NatOfInt(IntOfNat(a) % IntOfNat(b))>>
    ELSE IF Len(b) = 1
        THEN LET qr == DivSmallFrom(a, b[1], 1)
             IN  <<NatStrip(qr[1]), NatOfInt(qr[2])>>
    ELSE LET s == NatBitLen(a) - NatBitLen(b) + 1
         IN  DivBits(a, b, <<<<>>, NatShiftRight(a, s)>>, s, 1)

NatDiv(a, b) == IF b = <<1>> THEN a ELSE NatDivMod(a, b)[1]

\* one step of Euclid's algorithm on the pair ab = <<a, b>>: <<b, a mod b>>,
\* and <<gcd, 0>> at once when both are short
EuclidStep(ab) ==
    IF ab[2] = <<>> THEN ab
    ELSE IF Short(ab[1]) /\ Short(ab[2])
        THEN <<NatOfInt(GCD(IntOfNat(ab[1]), IntOfNat(ab[2]))), <<>>>>
    ELSE <<ab[2], NatDivMod(ab[1], ab[2])[2]>>

\* steps many steps of Euclid's algorithm from the pair ab: the first half of
\* the steps, then the other half from the result u of the first
RECURSIVE EuclidSteps(_, _)
EuclidSteps(ab, steps) ==
    IF ab[2] = <<>> THEN ab
    ELSE IF steps = 1 THEN EuclidStep(ab)
    ELSE CHOOSE r \in {EuclidSteps(u, steps - steps \div 2) :
                          u \in {EuclidSteps(ab, steps \div 2)}} : TRUE

\* greatest common divisor of a and b, b odd or both short: Euclid; two steps
\* halve the remainder at least, so twice the bits of b and two steps end it
Euclid(a, b) == EuclidSteps(<<a, b>>, 2 * NatBitLen(b) + 2)[1]

\* greatest common divisor, a # 0 and b # 0: the common power of two apart
NatGCD_body(a, b) ==
    IF Short(a) /\ Short(b) THEN NatOfInt(GCD(IntOfNat(a), IntOfNat(b)))
    ELSE LET za == NatLowZeros(a)
             zb == NatLowZeros(b)
             g == Euclid(NatShiftRight(a, za), NatShiftRight(b, zb))
         IN  NatShiftLeft(g, IF za < zb THEN za ELSE zb)

(***************************************************************************)
(* Exact rational numbers <<s, n, d>>: s the sign (-1, 0, 1), n and d      *)
(* natural numbers, d > 0, gcd(n, d) = 1; zero is <<0, <<>>, <<1>>>>.      *)
(***************************************************************************)
QZero == <<0, <<>>, <<1>>>>
QOne == <<1, <<1>>, <<1>>>>

\* n / d for machine integers n and d # 0
Rat_body(n, d) ==
    IF n = 0 THEN QZero
    ELSE LET g == GCD(IAbs(n), IAbs(d))
         IN  <<IF (n < 0) = (d < 0) THEN 1 ELSE -1,
               NatOfInt(IAbs(n) \div g), NatOfInt(IAbs(d) \div g)>>

QInt(i) == Rat(i, 1)

RNeg(x) == <<-x[1], x[2], x[3]>>

\* sa*a + sb*b as <<sign, natural number>>
SignedAdd(sa, a, sb, b) ==
    IF sa = sb THEN <<sa, NatAdd(a, b)>>
    ELSE IF a = b THEN <<0, <<>>>>
    ELSE IF NatLess(a, b) THEN <<sb, NatSub(b, a)>>
    ELSE <<sa, NatSub(a, b)>>

RAdd_body(x, y) ==
    IF x[1] = 0 THEN y
    ELSE IF y[1] = 0 THEN x
    ELSE LET g == NatGCD(x[3], y[3])
             xd == NatDiv(x[3], g)
             yd == NatDiv(y[3], g)
             num == SignedAdd(x[1], NatMul(x[2], yd), y[1], NatMul(y[2], xd))
         IN  IF num[1] = 0 THEN QZero
             ELSE LET h == NatGCD(num[2], g)
                  IN  <<num[1], NatDiv(num[2], h), NatMul(xd, NatDiv(y[3], h))>>

RSub(x, y) == RAdd(x, RNeg(y))

RMul_body(x, y) ==
    IF x[1] = 0 \/ y[1] = 0 THEN QZero
    ELSE LET g1 == NatGCD(x[2], y[3])
             g2 == NatGCD(y[2], x[3])
         IN  <<x[1] * y[1],
               NatMul(NatDiv(x[2], g1), NatDiv(y[2], g2)),
               NatMul(NatDiv(x[3], g2), NatDiv(y[3], g1))>>

\* 1/x for x # 0
RInv(x) == <<x[1], x[3], x[2]>>

RDiv(x, y) == RMul(x, RInv(y))

RAbs(x) == <<x[1] * x[1], x[2], x[3]>>

RLe(x, y) == RSub(y, x)[1] >= 0

RMax(x, y) == IF RLe(x, y) THEN y ELSE x

RECURSIVE RSumSeq(_)
RSumSeq(s) == IF s = <<>> THEN QZero ELSE RAdd(Head(s), RSumSeq(Tail(s)))

RECURSIVE RMaxSeq(_)
RMaxSeq(s) == IF s = <<>> THEN QZero ELSE RMax(Head(s), RMaxSeq(Tail(s)))

(***************************************************************************)
(* Binary numbers s * m * 2^e, kept as <<s, m, e>>: s the sign (-1, 0, 1), *)
(* m an odd natural number, e an integer; zero is <<0, <<>>, 0>>.  The     *)
(* arithmetic on them is exact.                                            *)
(***************************************************************************)
DZero == <<0, <<>>, 0>>

Dyadic(s, m, e) ==
    IF s = 0 \/ m = <<>> THEN DZero
    ELSE LET z == NatLowZeros(m) IN <<s, NatShiftRight(m, z), e + z>>

DOfInt(i) == Dyadic(IF i < 0 THEN -1 ELSE 1, NatOfInt(IAbs(i)), 0)
DNeg(x) == <<-x[1], x[2], x[3]>>
DAbs(x) == <<x[1] * x[1], x[2], x[3]>>

DAdd_body(x, y) ==
    IF x[1] = 0 THEN y
    ELSE IF y[1] = 0 THEN x
    ELSE LET e == IF x[3] < y[3] THEN x[3] ELSE y[3]
             a == NatShiftLeft(x[2], x[3] - e)
             b == NatShiftLeft(y[2], y[3] - e)
         IN  IF x[1] = y[1] THEN Dyadic(x[1], NatAdd(a, b), e)
             ELSE IF NatLess(a, b) THEN Dyadic(y[1], NatSub(b, a), e)
             ELSE Dyadic(x[1], NatSub(a, b), e)

DSub(x, y) == DAdd(x, DNeg(y))
DMul_body(x, y) == Dyadic(x[1] * y[1], NatMul(x[2], y[2]), x[3] + y[3])
\* x * 2^sh
DScale(x, sh) == IF x[1] = 0 THEN x ELSE <<x[1], x[2], x[3] + sh>>
DLe(x, y) == DSub(y, x)[1] >= 0

(***************************************************************************)
(* Python floats: IEEE 754 binary64.  A float is the binary number it      *)
(* denotes, with a significand of at most MantissaBits bits; every         *)
(* operation returns the exact result rounded to the nearest float, ties   *)
(* to the even significand.  The exponent range is not limited (no         *)
(* overflow to inf, no subnormals): the values of the script stay far      *)
(* from both ends.                                                         *)
(***************************************************************************)
\* significand width of a Python float (sys.float_info.mant_dig)
MantissaBits == 53

\* the bits of the significand beyond the first MantissaBits are dropped;
\* up: the first of them is 1 and either a lower one is 1 too or, on a tie,
\* the last bit kept is 1
RoundF_body(x) ==
    IF NatBitLen(x[2]) <= MantissaBits THEN x
    ELSE LET m == x[2]
             drop == NatBitLen(m) - MantissaBits
             kept == NatShiftRight(m, drop)
             guard == NatBit(m, drop)
             sticky == NatLowZeros(m) < drop - 1
             up == guard = 1 /\ (sticky \/ NatBit(m, drop + 1) = 1)
         IN  Dyadic(x[1], IF up THEN NatAdd(kept, <<1>>) ELSE kept, x[3] + drop)

\* float(i) for a Python int i
FloatOfInt_body(i) == RoundF(DOfInt(i))

\* x + y on floats
FAdd_body(x, y) == RoundF(DAdd(x, y))

\* x / y on floats, y # 0: the quotient of the significands is taken to
\* MantissaBits + 3 bits at least, a last bit tells whether a remainder is left
FDiv_body(x, y) ==
    IF x[1] = 0 THEN DZero
    ELSE LET sh == MantissaBits + 2 + NatBitLen(y[2])
             qr == NatDivMod(NatShiftLeft(x[2], sh), y[2])
             m == NatAdd(NatAdd(qr[1], qr[1]), IF qr[2] = <<>> THEN <<>> ELSE <<1>>)
         IN  RoundF(Dyadic(x[1] * y[1], m, x[3] - y[3] - sh - 1))

\* the floating-point product x * y, as a Python expression (n+1)*dt would give
FMul_body(x, y) == RoundF(DMul(x, y))

\* |x - y| <= gamma_m * |scale| with gamma_m = m*u / (1 - m*u) and
\* u = 2^(-MantissaBits) the unit roundoff: the bound on the error that m
\* roundings accumulate (m < 2^MantissaBits)
WithinRounding_body(x, y, m, scale) ==
    LET d == DAbs(DSub(x, y))
    IN  DLe(DSub(DScale(d, MantissaBits), DMul(DOfInt(m), d)), DMul(DOfInt(m), DAbs(scale)))

\* the real number a float denotes, as a rational
RealOfFloat_body(x) ==
    IF x[1] = 0 THEN QZero
    ELSE IF x[3] >= 0 THEN <<x[1], NatShiftLeft(x[2], x[3]), <<1>>>>
    ELSE <<x[1], x[2], NatShiftLeft(<<1>>, -x[3])>>

(***************************************************************************)
(* Dense linear algebra over the rationals.  A vector is a sequence of     *)
(* rationals, a matrix a sequence of rows.                                 *)
(***************************************************************************)
\* the sequence with the elements of f, a function on 1..n, evaluated once
AsSeq(f) == SubSeq(f, 1, Len(f))

ZeroVector(n) == AsSeq([i \in 1..n |-> QZero])

Dot(r, x) == RSumSeq(AsSeq([j \in 1..Len(r) |-> RMul(r[j], x[j])]))

MatVec(A, x) == AsSeq([i \in 1..Len(A) |-> Dot(A[i], x)])

\* first row at or below col with a non-zero entry in column col, 0 if none
PivotRow(M, col) ==
    LET cand == {r \in col..Len(M) : M[r][col][1] # 0}
    IN  IF cand = {} THEN 0 ELSE CHOOSE r \in cand : \A q \in cand : r <= q

\* one Gauss-Jordan step on the augmented matrix M: rows col and p are
\* exchanged, the pivot row is scaled to a unit pivot and column col is
\* cleared in every other row
EliminateColumn(M, col, p) ==
    LET piv == M[p]
        inv == RInv(piv[col])
        prow == AsSeq([j \in 1..Len(piv) |-> RMul(piv[j], inv)])
        Reduce(row) ==
            IF row[col][1] = 0 THEN row
            ELSE AsSeq([j \in 1..Len(row) |-> RSub(row[j], RMul(row[col], prow[j]))])
    IN  AsSeq([r \in 1..Len(M) |->
            IF r = col THEN prow
            ELSE IF r = p THEN Reduce(M[col])
            ELSE Reduce(M[r])])

RECURSIVE GaussJordan(_, _)
GaussJordan(M, col) ==
    IF col > Len(M) THEN M
    ELSE LET p == PivotRow(M, col)
         IN  IF p = 0 THEN <<>> ELSE GaussJordan(EliminateColumn(M, col, p), col + 1)

Augment(A, b) == AsSeq([i \in 1..Len(A) |-> Append(A[i], b[i])])

\* the solution x of A x = b, or <<>> when A is singular
LUSolve_body(A, b) ==
    LET R == GaussJordan(Augment(A, b), 1)
    IN  IF R = <<>> THEN <<>> ELSE AsSeq([i \in 1..Len(A) |-> R[i][Len(A) + 1]])

(***************************************************************************)
(* The mesh UnitSquareMesh(nx, ny) and the P1 spaces V (vector) and Q      *)
(* (scalar) on it.  A mesh is the record [nx, ny]; vertices are numbered   *)
(* row by row from 1, every grid square is split by its diagonal from the  *)
(* lower left to the upper right corner.  Q has one dof per vertex, V two  *)
(* (the x and the y component): dof 2(v-1)+c is component c of vertex v.   *)
(***************************************************************************)
NumVertices(m) == (m.nx + 1) * (m.ny + 1)

VertexX(m, v) == Rat((v - 1) % (m.nx + 1), m.nx)
VertexY(m, v) == Rat((v - 1) \div (m.nx + 1), m.ny)

\* the three vertices of cell c, c in 1..2*nx*ny
Cell(m, c) ==
    LET sq == (c - 1) \div 2
        v0 == (sq \div m.nx) * (m.nx + 1) + (sq % m.nx) + 1
        v1 == v0 + 1
        v2 == v0 + m.nx + 1
        v3 == v2 + 1
    IN  IF c % 2 = 1 THEN <<v0, v1, v3>> ELSE <<v0, v2, v3>>

Cells(m) == AsSeq([c \in 1..(2 * m.nx * m.ny) |-> Cell(m, c)])

NumVDofs(m) == 2 * NumVertices(m)
NumQDofs(m) == NumVertices(m)
VDof(v, c) == 2 * (v - 1) + c
VNode(d) == (d + 1) \div 2
VComp(d) == IF d % 2 = 1 THEN 1 ELSE 2

\* position of vertex v in the cell, 0 if v is no vertex of it
LocalIndex(cell, v) ==
    IF cell[1] = v THEN 1 ELSE IF cell[2] = v THEN 2 ELSE IF cell[3] = v THEN 3 ELSE 0

(***************************************************************************)
(* Geometry of a cell: its area, the (constant) gradients of its three P1  *)
(* basis functions, and for each of its edges <<a, b>> (local vertex       *)
(* numbers) the outward unit normal and the length if the edge lies on the *)
(* boundary of the unit square.                                            *)
(***************************************************************************)
CellGeometry(m, cell) ==
    LET x == AsSeq([a \in 1..3 |-> VertexX(m, cell[a])])
        y == AsSeq([a \in 1..3 |-> VertexY(m, cell[a])])
        det == RSub(RMul(RSub(x[2], x[1]), RSub(y[3], y[1])),
                    RMul(RSub(x[3], x[1]), RSub(y[2], y[1])))
        Nxt(a) == (a % 3) + 1
        Prv(a) == ((a + 1) % 3) + 1
        grad == AsSeq([a \in 1..3 |->
                   <<RDiv(RSub(y[Nxt(a)], y[Prv(a)]), det),
                     RDiv(RSub(x[Prv(a)], x[Nxt(a)]), det)>>])
        Facet(a) ==
            LET b == Nxt(a)
            IN  IF x[a] = x[b] /\ x[a] = QZero
                    THEN [on |-> TRUE, ends |-> <<a, b>>, n |-> <<QInt(-1), QZero>>,
                          len |-> RAbs(RSub(y[b], y[a]))]
                ELSE IF x[a] = x[b] /\ x[a] = QOne
                    THEN [on |-> TRUE, ends |-> <<a, b>>, n |-> <<QOne, QZero>>,
                          len |-> RAbs(RSub(y[b], y[a]))]
                ELSE IF y[a] = y[b] /\ y[a] = QZero
                    THEN [on |-> TRUE, ends |-> <<a, b>>, n |-> <<QZero, QInt(-1)>>,
                          len |-> RAbs(RSub(x[b], x[a]))]
                ELSE IF y[a] = y[b] /\ y[a] = QOne
                    THEN [on |-> TRUE, ends |-> <<a, b>>, n |-> <<QZero, QOne>>,
                          len |-> RAbs(RSub(x[b], x[a]))]
                ELSE [on |-> FALSE, ends |-> <<a, b>>, n |-> <<QZero, QZero>>, len |-> QZero]
    IN  [area |-> RMul(Rat(1, 2), RAbs(det)),
         grad |-> grad,
         facets |-> SelectSeq(AsSeq([a \in 1..3 |-> Facet(a)]), LAMBDA f : f.on)]

MeshGeometry_body(m) == AsSeq([c \in 1..(2 * m.nx * m.ny) |-> CellGeometry(m, Cell(m, c))])

\* integral over the cell of phi_a * phi_b, and of phi_a
MassLocal(geo, a, b) == RMul(geo.area, IF a = b THEN Rat(1, 6) ELSE Rat(1, 12))
MeanLocal(geo) == RMul(geo.area, Rat(1, 3))
\* integral over a boundary edge of phi_a * phi_b (a, b ends of the edge)
FacetMassLocal(f, a, b) == RMul(f.len, IF a = b THEN Rat(1, 3) ELSE Rat(1, 6))

GradDot(geo, a, b) ==
    RAdd(RMul(geo.grad[a][1], geo.grad[b][1]), RMul(geo.grad[a][2], geo.grad[b][2]))

(***************************************************************************)
(* The variational forms of lines 43-72, each as its element (cell and     *)
(* boundary-edge) contribution for test function phi_a e_cc and, for a     *)
(* bilinear form, trial function phi_b e_d.  k is Constant(dt).            *)
(***************************************************************************)
\* nu = 0.5, f = Constant((0, 0))
nu == Rat(1, 2)
f == <<QZero, QZero>>

Sum3(F(_)) == RAdd(F(1), RAdd(F(2), F(3)))
Sum2(F(_)) == RAdd(F(1), F(2))
Delta(i, j) == IF i = j THEN QOne ELSE QZero

\* grad(w)[r][s] = d w_r / d x_s of the P1 vector field w on the cell
GradV(cell, geo, w) ==
    LET G(r, s) == Sum3(LAMBDA j : RMul(w[VDof(cell[j], r)], geo.grad[j][s]))
    IN  << <<G(1, 1), G(1, 2)>>, <<G(2, 1), G(2, 2)>> >>

\* grad(q)[s] of the P1 scalar field q on the cell
GradS(cell, geo, q) ==
    LET G(s) == Sum3(LAMBDA j : RMul(q[cell[j]], geo.grad[j][s]))
    IN  <<G(1), G(2)>>

\* the boundary edges of the cell that have local vertex a as an end
FacetsAt(geo, a) == SelectSeq(geo.facets, LAMBDA e : e.ends[1] = a \/ e.ends[2] = a)

\* a1 = lhs(F1): (1/k) u.v dx + nu inner(sym grad u, sym grad v) dx
\*               - (nu/2) (grad(u)^T n).v ds
A1Local(geo, k, a, b, cc, d) ==
    LET mass == RMul(Delta(cc, d), RDiv(MassLocal(geo, a, b), k))
        visc == RMul(RMul(nu, geo.area),
                     RMul(Rat(1, 2), RAdd(RMul(Delta(cc, d), GradDot(geo, a, b)),
                                         RMul(geo.grad[a][d], geo.grad[b][cc]))))
        fs == FacetsAt(geo, a)
        bnd == RSumSeq(AsSeq([q \in 1..Len(fs) |->
                   RMul(RMul(RMul(nu, Rat(1, 2)), RMul(fs[q].n[d], geo.grad[b][cc])),
                        RMul(fs[q].len, Rat(1, 2)))]))
    IN  RSub(RAdd(mass, visc), bnd)

\* L1 = rhs(F1): (1/k) u0.v dx - (grad(u0) u0).v dx
\*               - nu inner(sym grad u0, sym grad v) dx + p0 div(v) dx
\*               - p0 n.v ds + (nu/2) (grad(u0)^T n).v ds + f.v dx
L1Local(cell, geo, k, u0v, p0v, a, cc) ==
    LET gu == GradV(cell, geo, u0v)
        U(j, r) == u0v[VDof(cell[j], r)]
        mass == RDiv(Sum3(LAMBDA j : RMul(U(j, cc), MassLocal(geo, j, a))), k)
        conv == Sum2(LAMBDA s :
                   RMul(gu[cc][s], Sum3(LAMBDA j : RMul(U(j, s), MassLocal(geo, j, a)))))
        visc == RMul(RMul(nu, geo.area),
                     Sum2(LAMBDA s : RMul(RMul(Rat(1, 2), RAdd(gu[cc][s], gu[s][cc])),
                                          geo.grad[a][s])))
        pdiv == RMul(RMul(Sum3(LAMBDA j : p0v[cell[j]]), MeanLocal(geo)), geo.grad[a][cc])
        force == RMul(f[cc], MeanLocal(geo))
        fs == FacetsAt(geo, a)
        ptrac == RSumSeq(AsSeq([q \in 1..Len(fs) |->
                   RMul(fs[q].n[cc],
                        RAdd(RMul(p0v[cell[fs[q].ends[1]]], FacetMassLocal(fs[q], fs[q].ends[1], a)),
                             RMul(p0v[cell[fs[q].ends[2]]], FacetMassLocal(fs[q], fs[q].ends[2], a))))]))
        vtrac == RSumSeq(AsSeq([q \in 1..Len(fs) |->
                   RMul(RMul(RMul(nu, Rat(1, 2)),
                             Sum2(LAMBDA s : RMul(gu[s][cc], fs[q].n[s]))),
                        RMul(fs[q].len, Rat(1, 2)))]))
    IN  RAdd(RSub(RAdd(RSub(RSub(mass, conv), visc), pdiv), ptrac), RAdd(vtrac, force))

\* a2 = grad(p).grad(q) dx
A2Local(geo, a, b) == RMul(geo.area, GradDot(geo, a, b))

\* L2 = grad(p0).grad(q) dx - (1/k) div(u1) q dx
L2Local(cell, geo, k, p0v, u1v, a) ==
    LET gp == GradS(cell, geo, p0v)
        gu == GradV(cell, geo, u1v)
        div == RAdd(gu[1][1], gu[2][2])
    IN  RSub(RMul(geo.area, RAdd(RMul(gp[1], geo.grad[a][1]), RMul(gp[2], geo.grad[a][2]))),
             RDiv(RMul(div, MeanLocal(geo)), k))

\* a3 = u.v dx
A3Local(geo, a, b, cc, d) == RMul(Delta(cc, d), MassLocal(geo, a, b))

\* a stage 3 that corrects with the full pressure, grad(p1), and not with
\* the pressure increment
L3Local_FullPressure(cell, geo, k, u1v, p1v, p0v, a, cc) ==
    LET gp == GradS(cell, geo, p1v)
    IN  RSub(Sum3(LAMBDA j : RMul(u1v[VDof(cell[j], cc)], MassLocal(geo, j, a))),
             RMul(k, RMul(gp[cc], MeanLocal(geo))))

\* L3 = u1.v dx - k grad(p1 - p0).v dx
L3Local(cell, geo, k, u1v, p1v, p0v, a, cc) ==
    LET dp == AsSeq([i \in 1..Len(p1v) |-> RSub(p1v[i], p0v[i])])
        gp == GradS(cell, geo, dp)
    IN  RSub(Sum3(LAMBDA j : RMul(u1v[VDof(cell[j], cc)], MassLocal(geo, j, a))),
             RMul(k, RMul(gp[cc], MeanLocal(geo))))

(***************************************************************************)
(* assemble(form): the global matrix or vector is the sum over the cells   *)
(* of the element contributions.                                           *)
(***************************************************************************)
AssembleMatrixV(m, Local(_, _, _, _, _)) ==
    LET cells == Cells(m)
        geos == MeshGeometry(m)
        Entry(i, j) ==
            RSumSeq(AsSeq([c \in 1..Len(cells) |->
                LET a == LocalIndex(cells[c], VNode(i))
                    b == LocalIndex(cells[c], VNode(j))
                IN  IF a = 0 \/ b = 0 THEN QZero
                    ELSE Local(geos[c], a, b, VComp(i), VComp(j))]))
    IN  AsSeq([i \in 1..NumVDofs(m) |-> AsSeq([j \in 1..NumVDofs(m) |-> Entry(i, j)])])

AssembleMatrixQ(m, Local(_, _, _)) ==
    LET cells == Cells(m)
        geos == MeshGeometry(m)
        Entry(i, j) ==
            RSumSeq(AsSeq([c \in 1..Len(cells) |->
                LET a == LocalIndex(cells[c], i)
                    b == LocalIndex(cells[c], j)
                IN  IF a = 0 \/ b = 0 THEN QZero ELSE Local(geos[c], a, b)]))
    IN  AsSeq([i \in 1..NumQDofs(m) |-> AsSeq([j \in 1..NumQDofs(m) |-> Entry(i, j)])])

AssembleVectorV(m, Local(_, _, _, _)) ==
    LET cells == Cells(m)
        geos == MeshGeometry(m)
        Entry(i) ==
            RSumSeq(AsSeq([c \in 1..Len(cells) |->
                LET a == LocalIndex(cells[c], VNode(i))
                IN  IF a = 0 THEN QZero ELSE Local(cells[c], geos[c], a, VComp(i))]))
    IN  AsSeq([i \in 1..NumVDofs(m) |-> Entry(i)])

AssembleVectorQ(m, Local(_, _, _)) ==
    LET cells == Cells(m)
        geos == MeshGeometry(m)
        Entry(i) ==
            RSumSeq(AsSeq([c \in 1..Len(cells) |->
                LET a == LocalIndex(cells[c], i)
                IN  IF a = 0 THEN QZero ELSE Local(cells[c], geos[c], a)]))
    IN  AsSeq([i \in 1..NumQDofs(m) |-> Entry(i)])

\* lines 75-77
AssembleA1_body(m, k) == AssembleMatrixV(m, LAMBDA g, a, b, cc, d : A1Local(g, k, a, b, cc, d))
AssembleA2_body(m) == AssembleMatrixQ(m, A2Local)
AssembleA3_body(m) == AssembleMatrixV(m, A3Local)
\* lines 91, 96, 101
AssembleL1_body(m, k, u0v, p0v) ==
    AssembleVectorV(m, LAMBDA c, g, a, cc : L1Local(c, g, k, u0v, p0v, a, cc))
AssembleL2_body(m, k, p0v, u1v) ==
    AssembleVectorQ(m, LAMBDA c, g, a : L2Local(c, g, k, p0v, u1v, a))
AssembleL3_body(m, k, u1v, p1v, p0v) ==
    AssembleVectorV(m, LAMBDA c, g, a, cc : L3Local(c, g, k, u1v, p1v, p0v, a, cc))

(***************************************************************************)
(* Dirichlet conditions (lines 25-29).  DirichletBC.apply on a matrix      *)
(* replaces each constrained row by the row of the identity, on a vector   *)
(* it overwrites each constrained entry by the prescribed value.           *)
(***************************************************************************)
\* 'near(x[1], 0) || near(x[1], 1)', both components of V
NoslipDofs(m) ==
    {d \in 1..NumVDofs(m) : VertexY(m, VNode(d)) = QZero \/ VertexY(m, VNode(d)) = QOne}
\* 'near(x[0], 0)' and 'near(x[0], 1)'
InflowDofs(m) == {d \in 1..NumQDofs(m) : VertexX(m, d) = QZero}
OutflowDofs(m) == {d \in 1..NumQDofs(m) : VertexX(m, d) = QOne}

\* the lists bcu and bcp: <<constrained dofs, prescribed value>>
bcu(m) == << <<NoslipDofs(m), QZero>> >>
bcp(m) == << <<InflowDofs(m), QOne>>, <<OutflowDofs(m), QZero>> >>

BCApplyMatrix(bc, A) ==
    AsSeq([i \in 1..Len(A) |->
        IF i \in bc[1] THEN AsSeq([j \in 1..Len(A) |-> Delta(i, j)]) ELSE A[i]])

\* a bc.apply(b) that leaves the right-hand side as assembled
BCApplyVector_Skipped(bc, b) == b

BCApplyVector(bc, b) ==
    AsSeq([i \in 1..Len(b) |-> IF i \in bc[1] THEN bc[2] ELSE b[i]])

\* [bc.apply(X) for bc in bcs]
RECURSIVE ApplyAllMatrix(_, _)
ApplyAllMatrix(bcs, A) ==
    IF bcs = <<>> THEN A ELSE ApplyAllMatrix(Tail(bcs), BCApplyMatrix(Head(bcs), A))

RECURSIVE ApplyAllVector(_, _)
ApplyAllVector(bcs, b) ==
    IF bcs = <<>> THEN b ELSE ApplyAllVector(Tail(bcs), BCApplyVector(Head(bcs), b))

\* u_e = (x[1]*(1 - x[1]), 0) interpolated into V (lines 108-109)
ExactVelocity(m) ==
    AsSeq([d \in 1..NumVDofs(m) |->
        IF VComp(d) = 1
        THEN RMul(VertexY(m, VNode(d)), RSub(QOne, VertexY(m, VNode(d))))
        ELSE QZero])

\* np.abs(u_e.vector().array() - u1.vector().array()).max() (line 110)
MaxNodalError_body(m, u1v) ==
    LET ue == ExactVelocity(m)
    IN  RMaxSeq(AsSeq([d \in 1..NumVDofs(m) |-> RAbs(RSub(ue[d], u1v[d]))]))

\* the routine op applied to its arguments, the values a
Numeric(op, a) ==
    CASE op = "Rat" /\ Len(a) = 2 -> Rat_body(a[1], a[2])
      [] op = "NatMul" /\ Len(a) = 2 -> NatMul_body(a[1], a[2])
      [] op = "NatGCD" /\ Len(a) = 2 -> NatGCD_body(a[1], a[2])
      [] op = "NatDivMod" /\ Len(a) = 2 -> NatDivMod_body(a[1], a[2])
      [] op = "NatAdd" /\ Len(a) = 2 -> NatAdd_body(a[1], a[2])
      [] op = "NatSub" /\ Len(a) = 2 -> NatSub_body(a[1], a[2])
      [] op = "NatShiftRight" /\ Len(a) = 2 -> NatShiftRight_body(a[1], a[2])
      [] op = "NatShiftLeft" /\ Len(a) = 2 -> NatShiftLeft_body(a[1], a[2])
      [] op = "RMul" /\ Len(a) = 2 -> RMul_body(a[1], a[2])
      [] op = "RAdd" /\ Len(a) = 2 -> RAdd_body(a[1], a[2])
      [] op = "DAdd" /\ Len(a) = 2 -> DAdd_body(a[1], a[2])
      [] op = "DMul" /\ Len(a) = 2 -> DMul_body(a[1], a[2])
      [] op = "RoundF" /\ Len(a) = 1 -> RoundF_body(a[1])
      [] op = "FloatOfInt" /\ Len(a) = 1 -> FloatOfInt_body(a[1])
      [] op = "FAdd" /\ Len(a) = 2 -> FAdd_body(a[1], a[2])
      [] op = "FDiv" /\ Len(a) = 2 -> FDiv_body(a[1], a[2])
      [] op = "RealOfFloat" /\ Len(a) = 1 -> RealOfFloat_body(a[1])
      [] op = "FMul" /\ Len(a) = 2 -> FMul_body(a[1], a[2])
      [] op = "WithinRounding" /\ Len(a) = 4 -> WithinRounding_body(a[1], a[2], a[3], a[4])
      [] op = "MeshGeometry" /\ Len(a) = 1 -> MeshGeometry_body(a[1])
      [] op = "AssembleL1" /\ Len(a) = 4 -> AssembleL1_body(a[1], a[2], a[3], a[4])
      [] op = "AssembleL2" /\ Len(a) = 4 -> AssembleL2_body(a[1], a[2], a[3], a[4])
      [] op = "AssembleL3" /\ Len(a) = 5 -> AssembleL3_body(a[1], a[2], a[3], a[4], a[5])
      [] op = "LUSolve" /\ Len(a) = 2 -> LUSolve_body(a[1], a[2])
      [] op = "MaxNodalError" /\ Len(a) = 2 -> MaxNodalError_body(a[1], a[2])
      [] op = "AssembleA1" /\ Len(a) = 2 -> AssembleA1_body(a[1], a[2])
      [] op = "AssembleA2" /\ Len(a) = 1 -> AssembleA2_body(a[1])
      [] op = "AssembleA3" /\ Len(a) = 1 -> AssembleA3_body(a[1])

(***************************************************************************)
(* The script as a state machine.                                          *)
(***************************************************************************)
VARIABLES
    pc,         \* the statement to execute next
    mesh,       \* the mesh [nx, ny] (line 20)
    T,          \* final time, a float (line 14)
    num_steps,  \* number of time steps, an int (line 15)
    dt,         \* time step size, a float (line 16); k = Constant(dt)
    t,          \* current time (lines 84, 88)
    n,          \* index of the next iteration of xrange(num_steps) (line 85)
    A1, A2, A3, \* the assembled matrices (lines 75-81)
    b1, b2, b3, \* the right-hand sides of the current step
    u0, u1,     \* velocity at the previous and the current level
    p0, p1,     \* pressure at the previous and the current level
    error,      \* the error of the last print (line 111)
    exc,        \* the exception that ended the script, "none" if none
    u_tent,     \* history: u1 as the stage-1 solve returned it
    log         \* history: the statements executed, <<name, iteration>>

vars == <<pc, mesh, T, num_steps, dt, t, n, A1, A2, A3, b1, b2, b3,
          u0, u1, p0, p1, error, exc, u_tent, log>>

\* a name not yet bound
Unset == <<>>

\* The meshes explored.  The second one has velocity dofs off the walls;
\* its runs are kept to dt = 1, which keeps the numbers of the exact stage-1
\* solve short.
CoarseMesh == [nx |-> 2, ny |-> 1]
TallMesh == [nx |-> 1, ny |-> 2]
Meshes == {CoarseMesh, TallMesh}

\* T = 0 makes k = 0 and the coefficient 1/k of the forms infinite: left out
TChoices == (-MaxT..MaxT) \ {0}
StepChoices == -1..MaxSteps

Configurations ==
    {c \in [mesh : Meshes, T : TChoices, num_steps : StepChoices] :
        c.mesh = CoarseMesh \/ c.T = c.num_steps}

\* a loop body that corrects the velocity before it solves for the pressure
LoopBody_Stage3First ==
    <<"advance", "assemble_b1", "apply_bcu_b1", "solve1",
      "assemble_b3", "solve3",
      "assemble_b2", "apply_bcp_b2", "solve2",
      "plot", "error", "commit">>

\* the statements of the loop body, lines 88-115, in program order
LoopBody ==
    <<"advance", "assemble_b1", "apply_bcu_b1", "solve1",
      "assemble_b2", "apply_bcp_b2", "solve2",
      "assemble_b3", "solve3", "plot", "error", "commit">>

\* the statement after statement s of the loop body; the loop head after the last
After(s) ==
    LET i == CHOOSE j \in 1..Len(LoopBody) : LoopBody[j] = s
    IN  IF i = Len(LoopBody) THEN "loop" ELSE LoopBody[i + 1]

Logged(name, it) == Append(log, <<name, it>>)

\* line 47: k = Constant(dt), the value of the float dt
K == RealOfFloat(dt)

Init ==
    /\ \E c \in Configurations :
          /\ mesh = c.mesh
          /\ T = FloatOfInt(c.T)
          /\ num_steps = c.num_steps
    /\ pc = "compute_dt"
    /\ dt = Unset /\ t = Unset
    /\ n = 0
    /\ A1 = Unset /\ A2 = Unset /\ A3 = Unset
    /\ b1 = Unset /\ b2 = Unset /\ b3 = Unset
    /\ u0 = Unset /\ u1 = Unset /\ p0 = Unset /\ p1 = Unset
    /\ error = Unset /\ u_tent = Unset
    /\ exc = "none"
    /\ log = <<>>

\* line 16: dt = T / num_steps
ComputeDt ==
    /\ pc = "compute_dt"
    /\ \/ /\ num_steps = 0
          /\ exc' = "ZeroDivisionError"
          /\ pc' = "aborted"
          /\ dt' = dt
       \/ /\ num_steps # 0
          /\ dt' = FDiv(T, FloatOfInt(num_steps))
          /\ pc' = "define"
          /\ exc' = exc
    /\ UNCHANGED <<mesh, T, num_steps, t, n, A1, A2, A3, b1, b2, b3,
                   u0, u1, p0, p1, error, u_tent, log>>

\* lines 19-72: mesh, spaces, boundary conditions, the functions u0, u1, p0,
\* p1 (zero) and the forms
DefineProblem ==
    /\ pc = "define"
    /\ u0' = ZeroVector(NumVDofs(mesh))
    /\ u1' = ZeroVector(NumVDofs(mesh))
    /\ p0' = ZeroVector(NumQDofs(mesh))
    /\ p1' = ZeroVector(NumQDofs(mesh))
    /\ pc' = "assemble_matrices"
    /\ UNCHANGED <<mesh, T, num_steps, dt, t, n, A1, A2, A3, b1, b2, b3,
                   error, exc, u_tent, log>>

\* lines 75-77
AssembleMatrices ==
    /\ pc = "assemble_matrices"
    /\ A1' = AssembleA1(mesh, K)
    /\ A2' = AssembleA2(mesh)
    /\ A3' = AssembleA3(mesh)
    /\ log' = log \o <<<<"assemble_A1", -1>>, <<"assemble_A2", -1>>, <<"assemble_A3", -1>>>>
    /\ pc' = "apply_bc_matrices"
    /\ UNCHANGED <<mesh, T, num_steps, dt, t, n, b1, b2, b3,
                   u0, u1, p0, p1, error, exc, u_tent>>

\* lines 80-81
ApplyBCMatrices ==
    /\ pc = "apply_bc_matrices"
    /\ A1' = ApplyAllMatrix(bcu(mesh), A1)
    /\ A2' = ApplyAllMatrix(bcp(mesh), A2)
    /\ log' = log \o <<<<"apply_bcu_A1", -1>>, <<"apply_bcp_A2", -1>>>>
    /\ pc' = "init_time"
    /\ UNCHANGED <<mesh, T, num_steps, dt, t, n, A3, b1, b2, b3,
                   u0, u1, p0, p1, error, exc, u_tent>>

\* line 84: t = 0
InitTime ==
    /\ pc = "init_time"
    /\ t' = FloatOfInt(0)
    /\ pc' = "loop"
    /\ UNCHANGED <<mesh, T, num_steps, dt, n, A1, A2, A3, b1, b2, b3,
                   u0, u1, p0, p1, error, exc, u_tent, log>>

\* a loop that also stops as soon as the reported error is zero
LoopHead_StopsWhenConverged ==
    /\ pc = "loop"
    /\ pc' = IF n < num_steps /\ error # QZero THEN LoopBody[1] ELSE "interactive"
    /\ UNCHANGED <<mesh, T, num_steps, dt, t, n, A1, A2, A3, b1, b2, b3,
                   u0, u1, p0, p1, error, exc, u_tent, log>>

\* line 85: for n in xrange(num_steps)
LoopHead ==
    /\ pc = "loop"
    /\ pc' = IF n < num_steps THEN LoopBody[1] ELSE "interactive"
    /\ UNCHANGED <<mesh, T, num_steps, dt, t, n, A1, A2, A3, b1, b2, b3,
                   u0, u1, p0, p1, error, exc, u_tent, log>>

\* an advance that assigns the step size (t = dt) and does not accumulate
Advance_Assigns ==
    /\ pc = "advance"
    /\ t' = dt
    /\ log' = Logged("advance", n)
    /\ pc' = After("advance")
    /\ UNCHANGED <<mesh, T, num_steps, dt, n, A1, A2, A3, b1, b2, b3,
                   u0, u1, p0, p1, error, exc, u_tent>>

\* line 88: t += dt
Advance ==
    /\ pc = "advance"
    /\ t' = FAdd(t, dt)
    /\ log' = Logged("advance", n)
    /\ pc' = After("advance")
    /\ UNCHANGED <<mesh, T, num_steps, dt, n, A1, A2, A3, b1, b2, b3,
                   u0, u1, p0, p1, error, exc, u_tent>>

\* a step that assembles the stage-1 matrix again with its right-hand side
AssembleB1_WithMatrix ==
    /\ pc = "assemble_b1"
    /\ A1' = AssembleA1(mesh, K)
    /\ b1' = AssembleL1(mesh, K, u0, p0)
    /\ log' = Logged("assemble_b1", n)
    /\ pc' = After("assemble_b1")
    /\ UNCHANGED <<mesh, T, num_steps, dt, t, n, A2, A3, b2, b3,
                   u0, u1, p0, p1, error, exc, u_tent>>

\* line 91
AssembleB1 ==
    /\ pc = "assemble_b1"
    /\ b1' = AssembleL1(mesh, K, u0, p0)
    /\ log' = Logged("assemble_b1", n)
    /\ pc' = After("assemble_b1")
    /\ UNCHANGED <<mesh, T, num_steps, dt, t, n, A1, A2, A3, b2, b3,
                   u0, u1, p0, p1, error, exc, u_tent>>

\* line 92
ApplyBCB1 ==
    /\ pc = "apply_bcu_b1"
    /\ b1' = ApplyAllVector(bcu(mesh), b1)
    /\ log' = Logged("apply_bcu_b1", n)
    /\ pc' = After("apply_bcu_b1")
    /\ UNCHANGED <<mesh, T, num_steps, dt, t, n, A1, A2, A3, b2, b3,
                   u0, u1, p0, p1, error, exc, u_tent>>

\* line 93: solve(A1, u1.vector(), b1); the call returns with the solution in
\* u1 or raises (a singular matrix, or any other failure of the solver)
Solve1 ==
    /\ pc = "solve1"
    /\ log' = Logged("solve1", n)
    /\ \/ \E x \in {LUSolve(A1, b1)} :
              /\ x # <<>>
              /\ u1' = x
              /\ u_tent' = x
              /\ pc' = After("solve1")
              /\ exc' = exc
       \/ /\ exc' = "RuntimeError"
          /\ pc' = "aborted"
          /\ UNCHANGED <<u1, u_tent>>
    /\ UNCHANGED <<mesh, T, num_steps, dt, t, n, A1, A2, A3, b1, b2, b3,
                   u0, p0, p1, error>>

\* line 96
AssembleB2 ==
    /\ pc = "assemble_b2"
    /\ b2' = AssembleL2(mesh, K, p0, u1)
    /\ log' = Logged("assemble_b2", n)
    /\ pc' = After("assemble_b2")
    /\ UNCHANGED <<mesh, T, num_steps, dt, t, n, A1, A2, A3, b1, b3,
                   u0, u1, p0, p1, error, exc, u_tent>>

\* line 97
ApplyBCB2 ==
    /\ pc = "apply_bcp_b2"
    /\ b2' = ApplyAllVector(bcp(mesh), b2)
    /\ log' = Logged("apply_bcp_b2", n)
    /\ pc' = After("apply_bcp_b2")
    /\ UNCHANGED <<mesh, T, num_steps, dt, t, n, A1, A2, A3, b1, b3,
                   u0, u1, p0, p1, error, exc, u_tent>>

\* a stage-2 solve that is tried again when it raises
Solve2_Retried ==
    /\ pc = "solve2"
    /\ log' = Logged("solve2", n)
    /\ \/ \E x \in {LUSolve(A2, b2)} :
              /\ x # <<>>
              /\ p1' = x
              /\ pc' = After("solve2")
              /\ exc' = exc
       \/ /\ exc' = "RuntimeError"
          /\ pc' = "solve2"
          /\ p1' = p1
    /\ UNCHANGED <<mesh, T, num_steps, dt, t, n, A1, A2, A3, b1, b2, b3,
                   u0, u1, p0, error, u_tent>>

\* line 98: solve(A2, p1.vector(), b2)
Solve2 ==
    /\ pc = "solve2"
    /\ log' = Logged("solve2", n)
    /\ \/ \E x \in {LUSolve(A2, b2)} :
              /\ x # <<>>
              /\ p1' = x
              /\ pc' = After("solve2")
              /\ exc' = exc
       \/ /\ exc' = "RuntimeError"
          /\ pc' = "aborted"
          /\ p1' = p1
    /\ UNCHANGED <<mesh, T, num_steps, dt, t, n, A1, A2, A3, b1, b2, b3,
                   u0, u1, p0, error, u_tent>>

\* line 101
AssembleB3 ==
    /\ pc = "assemble_b3"
    /\ b3' = AssembleL3(mesh, K, u1, p1, p0)
    /\ log' = Logged("assemble_b3", n)
    /\ pc' = After("assemble_b3")
    /\ UNCHANGED <<mesh, T, num_steps, dt, t, n, A1, A2, A3, b1, b2,
                   u0, u1, p0, p1, error, exc, u_tent>>

\* line 102: solve(A3, u1.vector(), b3)
Solve3 ==
    /\ pc = "solve3"
    /\ log' = Logged("solve3", n)
    /\ \/ \E x \in {LUSolve(A3, b3)} :
              /\ x # <<>>
              /\ u1' = x
              /\ pc' = After("solve3")
              /\ exc' = exc
       \/ /\ exc' = "RuntimeError"
          /\ pc' = "aborted"
          /\ u1' = u1
    /\ UNCHANGED <<mesh, T, num_steps, dt, t, n, A1, A2, A3, b1, b2, b3,
                   u0, p0, p1, error, u_tent>>

\* line 105: plot(u1)
Plot ==
    /\ pc = "plot"
    /\ log' = Logged("plot", n)
    /\ pc' = After("plot")
    /\ UNCHANGED <<mesh, T, num_steps, dt, t, n, A1, A2, A3, b1, b2, b3,
                   u0, u1, p0, p1, error, exc, u_tent>>

\* lines 108-111: the maximal nodal error, printed with t
ComputeError ==
    /\ pc = "error"
    /\ error' = MaxNodalError(mesh, u1)
    /\ log' = Logged("error", n)
    /\ pc' = After("error")
    /\ UNCHANGED <<mesh, T, num_steps, dt, t, n, A1, A2, A3, b1, b2, b3,
                   u0, u1, p0, p1, exc, u_tent>>

\* a commit that updates the velocity and forgets the pressure
Commit_VelocityOnly ==
    /\ pc = "commit"
    /\ u0' = u1
    /\ n' = n + 1
    /\ log' = Logged("commit", n)
    /\ pc' = After("commit")
    /\ UNCHANGED <<mesh, T, num_steps, dt, t, A1, A2, A3, b1, b2, b3,
                   u1, p0, p1, error, exc, u_tent>>

\* lines 114-115: u0.assign(u1); p0.assign(p1); then the next n
Commit ==
    /\ pc = "commit"
    /\ u0' = u1
    /\ p0' = p1
    /\ n' = n + 1
    /\ log' = Logged("commit", n)
    /\ pc' = After("commit")
    /\ UNCHANGED <<mesh, T, num_steps, dt, t, A1, A2, A3, b1, b2, b3,
                   u1, p1, error, exc, u_tent>>

\* line 118: interactive(), the end of the script
Interactive ==
    /\ pc = "interactive"
    /\ pc' = "done"
    /\ UNCHANGED <<mesh, T, num_steps, dt, t, n, A1, A2, A3, b1, b2, b3,
                   u0, u1, p0, p1, error, exc, u_tent, log>>

Next ==
    \/ ComputeDt \/ DefineProblem \/ AssembleMatrices \/ ApplyBCMatrices
    \/ InitTime \/ LoopHead \/ Advance
    \/ AssembleB1 \/ ApplyBCB1 \/ Solve1
    \/ AssembleB2 \/ ApplyBCB2 \/ Solve2
    \/ AssembleB3 \/ Solve3
    \/ Plot \/ ComputeError \/ Commit \/ Interactive

Spec == Init /\ [][Next]_vars

\* The interpreter executes the statement the script stands at: control
\* leaves every program point other than the two ends of the script.
Running == pc \notin {"done", "aborted"}

ProgramPoints ==
    {"compute_dt", "define", "assemble_matrices", "apply_bc_matrices",
     "init_time", "loop", "interactive", "done", "aborted"} \cup {LoopBody[i] : i \in 1..Len(LoopBody)}

Execute == Running /\ pc' \in ProgramPoints /\ pc' # pc

\* the script is a single thread that always takes its next step
FairSpec == Spec /\ WF_pc(Execute)

(***************************************************************************)
(* Vocabulary of the properties.                                           *)
(***************************************************************************)
BodyStatements == {LoopBody[i] : i \in 1..Len(LoopBody)}
SolveStatements == {"solve1", "solve2", "solve3"}
\* the statements of an iteration that follow the time advance
AfterAdvance == BodyStatements \ {"advance"}

IsZeroVector(v) == \A i \in 1..Len(v) : v[i] = QZero

\* the events of the log with the given name
Events(name) == SelectSeq(log, LAMBDA e : e[1] = name)

(***************************************************************************)
(* C1: in every time step the driver performs, each once and in this       *)
(* order: advance t; assemble b1, apply the velocity conditions to b1,     *)
(* solve stage 1; assemble b2, apply the pressure conditions to b2, solve  *)
(* stage 2; assemble b3, solve stage 3; evaluate the error; commit.  No    *)
(* statement of step n+1 runs before the commit of step n.  (The plot of   *)
(* line 105, between stage 3 and the error, is visualisation and is not    *)
(* counted.)                                                               *)
(***************************************************************************)
ClaimedOrder ==
    <<"advance", "assemble_b1", "apply_bcu_b1", "solve1",
      "assemble_b2", "apply_bcp_b2", "solve2",
      "assemble_b3", "solve3", "error", "commit">>

StepEvents == SelectSeq(log, LAMBDA e : e[2] >= 0 /\ e[1] # "plot")

C1_StepOrder ==
    /\ \A i \in 1..Len(StepEvents) :
          /\ StepEvents[i][1] = ClaimedOrder[((i - 1) % Len(ClaimedOrder)) + 1]
          /\ StepEvents[i][2] = (i - 1) \div Len(ClaimedOrder)
          /\ StepEvents[i][2] < num_steps
    /\ pc = "loop" => Len(StepEvents) = n * Len(ClaimedOrder)

C1_Witness == pc = "done" /\ num_steps >= 2 /\ Len(StepEvents) = num_steps * Len(ClaimedOrder)

(***************************************************************************)
(* C2: for every positive num_steps, unless a solve fails, the script      *)
(* eventually reaches its end, and it does so after exactly num_steps      *)
(* commits, whatever the solves and the error evaluation produced.         *)
(***************************************************************************)
C2_Terminates ==
    /\ (num_steps > 0) => <>(pc = "done" \/ exc = "RuntimeError")
    /\ [](pc = "done" /\ num_steps > 0 =>
             Len(Events("commit")) = num_steps /\ n = num_steps)

C2_Witness == pc = "done" /\ num_steps >= 3 /\ Len(Events("commit")) = num_steps

(***************************************************************************)
(* C3: within the loop u0 and p0 are changed by the commit only; the       *)
(* commit leaves u0 = u1 and p0 = p1, with u1 and p1 as stage 3 and stage  *)
(* 2 of that step left them.                                               *)
(***************************************************************************)
C3_PrevOnlyByCommit ==
    [][ /\ (pc \in (BodyStatements \ {"commit"}) \cup {"loop"}) => (u0' = u0 /\ p0' = p0)
        /\ pc = "commit" => (u0' = u1' /\ p0' = p1' /\ u1' = u1 /\ p1' = p1) ]_vars

C3_Witness == pc = "loop" /\ n >= 1 /\ u0 = u1 /\ p0 = p1 /\ ~IsZeroVector(u0)

(***************************************************************************)
(* C4: a configuration with non-positive T, num_steps or dt is rejected    *)
(* before any stepping: no statement of the loop body is executed and the  *)
(* script does not reach its end as if it had succeeded.                   *)
(***************************************************************************)
C4_ConfigRejected ==
    (T[1] <= 0 \/ num_steps <= 0) => pc \notin BodyStatements \cup {"done"}

(***************************************************************************)
(* C5: a solve that fails in step n ends the run there: the exception      *)
(* leaves the script, nothing of u0, p0, n or the reported error changes,  *)
(* the failed solve is the last statement executed (no retry, no later     *)
(* stage, no error report, no commit of step n, no step n+1).              *)
(***************************************************************************)
C5_FailureStops ==
    /\ [][ (pc \in SolveStatements /\ exc' = "RuntimeError") =>
              /\ pc' = "aborted"
              /\ u0' = u0 /\ p0' = p0 /\ n' = n /\ error' = error
              /\ log' = Append(log, <<pc, n>>) ]_vars
    /\ [][ pc # "aborted" ]_vars
    /\ [](exc = "RuntimeError" =>
             /\ pc = "aborted"
             /\ Len(Events("commit")) = n
             /\ Len(Events("error")) = n
             /\ log[Len(log)][1] \in SolveStatements /\ log[Len(log)][2] = n)

C5_Witness == exc = "RuntimeError" /\ pc = "aborted" /\ n >= 1 /\ log[Len(log)][1] = "solve2"

(***************************************************************************)
(* C6: right after the stage-1 solve u1 is (0, 0) at every no-slip dof,    *)
(* right after the stage-2 solve p1 is 1 at every inflow dof and 0 at      *)
(* every outflow dof; the solves see matrices whose constrained rows are   *)
(* rows of the identity and right-hand sides holding the prescribed value. *)
(***************************************************************************)
IdentityRow(A, i) == \A j \in 1..Len(A) : A[i][j] = Delta(i, j)

C6_BCEnforced ==
    /\ pc = "solve1" =>
          \A d \in NoslipDofs(mesh) : IdentityRow(A1, d) /\ b1[d] = QZero
    /\ pc = "assemble_b2" =>
          \A d \in NoslipDofs(mesh) : u1[d] = QZero
    /\ pc = "solve2" =>
          /\ \A d \in InflowDofs(mesh) : IdentityRow(A2, d) /\ b2[d] = QOne
          /\ \A d \in OutflowDofs(mesh) : IdentityRow(A2, d) /\ b2[d] = QZero
    /\ pc = "assemble_b3" =>
          /\ \A d \in InflowDofs(mesh) : p1[d] = QOne
          /\ \A d \in OutflowDofs(mesh) : p1[d] = QZero

C6_Witness ==
    /\ pc = "assemble_b3" /\ n >= 1
    /\ ~IsZeroVector(u_tent)
    /\ \A d \in NoslipDofs(mesh) : u_tent[d] = QZero
    /\ \A d \in InflowDofs(mesh) : p1[d] = QOne

(***************************************************************************)
(* C7: after the stage-3 solve, hence in the error evaluation and in every *)
(* u0 committed, the velocity is (0, 0) at every no-slip dof.              *)
(***************************************************************************)
C7_NoSlipAfterCorrection ==
    /\ pc \in {"plot", "error", "commit"} => \A d \in NoslipDofs(mesh) : u1[d] = QZero
    /\ (pc \in BodyStatements \cup {"loop", "interactive", "done"}) =>
          \A d \in NoslipDofs(mesh) : u0[d] = QZero

(***************************************************************************)
(* C8: A1, A2 and A3 are assembled once each and the conditions applied to *)
(* A1 and A2 once, all before the first step; no statement of the loop     *)
(* changes them; b1, b2 and b3 are assembled anew in every step from the   *)
(* fields as they are then.                                                *)
(***************************************************************************)
SetupEvents ==
    <<<<"assemble_A1", -1>>, <<"assemble_A2", -1>>, <<"assemble_A3", -1>>,
      <<"apply_bcu_A1", -1>>, <<"apply_bcp_A2", -1>>>>

C8_MatricesOnce ==
    /\ [][ (pc \in BodyStatements \cup {"loop"}) => (A1' = A1 /\ A2' = A2 /\ A3' = A3) ]_vars
    /\ [](pc \in BodyStatements \cup {"loop", "interactive", "done"} =>
             /\ SubSeq(log, 1, Len(SetupEvents)) = SetupEvents
             /\ SelectSeq(log, LAMBDA e : e[2] < 0) = SetupEvents)
    /\ [](pc = "apply_bcu_b1" => b1 = AssembleL1(mesh, K, u0, p0))
    /\ [](pc = "apply_bcp_b2" => b2 = AssembleL2(mesh, K, p0, u1))
    /\ [](pc = "solve3" => b3 = AssembleL3(mesh, K, u1, p1, p0))

C8_Witness ==
    /\ pc = "solve3" /\ n >= 1
    /\ A3 = AssembleA3(mesh)
    /\ Len(Events("assemble_b1")) = n + 1
    /\ Len(Events("assemble_A1")) = 1

(***************************************************************************)
(* C9 as claimed: t is 0 before the first step, equals (n+1)*dt throughout *)
(* step n after the advance, and at the end equals num_steps*dt, which     *)
(* equals T for T > 0 and num_steps > 0.  The products are taken as the    *)
(* script would compute them, in floating point.                           *)
(***************************************************************************)
C9_TimeExact ==
    /\ (pc \in {"loop", "advance"} /\ n = 0) => t = DZero
    /\ (pc \in AfterAdvance /\ T[1] > 0) => t = FMul(FloatOfInt(n + 1), dt)
    /\ (pc = "done" /\ T[1] > 0 /\ num_steps > 0) =>
          /\ t = FMul(FloatOfInt(num_steps), dt)
          /\ t = T

(***************************************************************************)
(* C9 as amended: t is 0 before the first step, is changed by the advance  *)
(* only, once per step, to the floating-point sum t + dt; throughout step  *)
(* n it equals (n+1)*dt, and at the end num_steps*dt and T (for T > 0,     *)
(* num_steps > 0), up to the rounding error of the additions and of the    *)
(* division dt = T / num_steps, not exactly.                               *)
(***************************************************************************)
C9_TimeWithinRounding ==
    /\ [][ t' # t => \/ pc = "init_time"
                     \/ pc = "advance" /\ t' = FAdd(t, dt) ]_vars
    /\ []((pc \in {"loop", "advance"} /\ n = 0) => t = DZero)
    /\ [](pc \in AfterAdvance =>
             /\ Len(Events("advance")) = n + 1
             /\ WithinRounding(t, DMul(DOfInt(n + 1), dt), n + 1, DMul(DOfInt(n + 1), dt)))
    /\ []((pc = "done" /\ T[1] > 0 /\ num_steps > 0) =>
             /\ WithinRounding(t, DMul(DOfInt(num_steps), dt), num_steps, T)
             /\ WithinRounding(DMul(DOfInt(num_steps), dt), T, 1, T)
             /\ WithinRounding(t, T, num_steps, T))

C9_Witness == pc = "done" /\ T[1] > 0 /\ num_steps > 0 /\ t # T

(***************************************************************************)
(* C10: when stage 2 returned the previous pressure (p1 = p0), the stage-3 *)
(* solve returns the tentative velocity of stage 1 unchanged.              *)
(***************************************************************************)
C10_Stage3Exact == (pc = "plot" /\ p1 = p0) => u1 = u_tent

C10_Witness == pc = "plot" /\ p1 = p0 /\ u1 = u_tent /\ ~IsZeroVector(u_tent)

====
